---- MODULE Spec2Model ----
(***************************************************************************)
(* Model of the curator-agent note categorizer: CategoryPath (domain),     *)
(* the note-file format and FsWorkspace (filesystem adapter), the          *)
(* CategorizeNoteUseCase orchestrator and the categorizeNoteAgent loop.    *)
(*                                                                         *)
(* Strings are sequences of one-character strings, so that trimming,       *)
(* splitting and joining are computed character by character as the        *)
(* JavaScript string methods compute them.                                 *)
(***************************************************************************)
EXTENDS Integers, Sequences, FiniteSets, TLC

VARIABLES
    cpRaw,      \* CategoryPath check: the raw string handed to fromRaw
    cpOut,      \* result of fromRaw(cpRaw), or of root()
    cpAgain,    \* result of fromRaw(cpOut.value)
    cpStage,    \* "input" | "once" | "twice" | "root"
    nfOrigin,   \* note-file check: "text" (a file text) | "record" (a {H,B})
    nfText,     \* the file text handed to parseNoteFile
    nfParsed,   \* ParsedNoteFile: parse of nfText, or the given {H,B}
    nfSerial,   \* serializeNoteFile(nfParsed)
    nfReparsed, \* parseNoteFile(nfSerial)
    nfStage,    \* "text" | "parsed" | "serialized" | "reparsed"
    tiPath,     \* title check: the relativePath handed to deriveTitle
    tiBody,     \* the body handed to deriveTitle
    tiTitle,    \* deriveTitle(tiPath, tiBody)
    tiStage,    \* "input" | "titled"
    agStage,    \* agent: "awaiting-decision" | "tool-invoked" | "completed"
    agStep,     \* agent: number of steps generateText has started
    agTool,     \* agent: the tool call of the current step and its status
    files,      \* the filesystem: absolute path -> text of each existing file
    dirs,       \* the filesystem: absolute paths of the existing directories
    pc,         \* where execute() is: the await it is suspended at
    runs,       \* number of execute() calls started
    relativePath,        \* execute's input.relativePath
    originalNote,        \* execute's originalNote
    availableCategories, \* execute's availableCategories
    decision,            \* the oracle's decision.suggestedCategory
    apply,      \* locals of applyCategoryChange: absOld, absNew, newRel, newContent
    outcome,    \* what execute() gave its caller: a result or a thrown error
    calls,      \* the port methods execute() has called, in order
    fsOps,      \* the filesystem writes that succeeded during this execute()
    files0,     \* files when this execute() started
    dirs0,      \* dirs when this execute() started
    lastPath,   \* path of the updatedNote of the last execute() that returned
    prev        \* what the execute() before this one returned, if it returned

cpVars == <<cpRaw, cpOut, cpAgain, cpStage>>
nfVars == <<nfOrigin, nfText, nfParsed, nfSerial, nfReparsed, nfStage>>
tiVars == <<tiPath, tiBody, tiTitle, tiStage>>
agVars == <<agStage, agStep, agTool>>
fsVars == <<files, dirs>>
exVars == <<pc, runs, relativePath, originalNote, availableCategories, decision,
            apply, outcome, calls, fsOps, files0, dirs0, lastPath, prev>>
wsVars == <<fsVars, exVars>>
vars == <<cpVars, nfVars, tiVars, agVars, wsVars>>

----------------------------------------------------------------------------
(* Characters and strings *)

\* A string literal as a sequence of one-character strings.
Chars(s) == [i \in 1..Len(s) |-> SubSeq(s, i, i)]

NL == "\n"
CR == "\r"
SLASH == "/"
BACKSLASH == "\\"

\* White space removed by String.prototype.trim (the part of it modelled).
IsSpace(c) == c \in {" ", "\t", NL, CR}

RECURSIVE TrimStart(_)
TrimStart(s) ==
    IF s # <<>> /\ IsSpace(Head(s)) THEN TrimStart(Tail(s)) ELSE s

RECURSIVE TrimEnd(_)
TrimEnd(s) ==
    IF s # <<>> /\ IsSpace(s[Len(s)]) THEN TrimEnd(SubSeq(s, 1, Len(s) - 1)) ELSE s

\* String.prototype.trim
Trim(s) == TrimEnd(TrimStart(s))

\* replace(/\\/g, "/")
BackslashesToSlashes(s) == [i \in 1..Len(s) |-> IF s[i] = BACKSLASH THEN SLASH ELSE s[i]]

\* replace(/\/+/g, "/")
RECURSIVE CollapseSlashes(_)
CollapseSlashes(s) ==
    IF Len(s) < 2 THEN s
    ELSE IF s[1] = SLASH /\ s[2] = SLASH THEN CollapseSlashes(Tail(s))
    ELSE <<s[1]>> \o CollapseSlashes(Tail(s))

\* replace(/^\/+/, "")
RECURSIVE StripLeadingSlashes(_)
StripLeadingSlashes(s) ==
    IF s # <<>> /\ Head(s) = SLASH THEN StripLeadingSlashes(Tail(s)) ELSE s

\* replace(/^\/|\/$/g, ""): one leading slash, then one trailing slash of what
\* is left (the two matches never share a character).
StripOneSlashEachEnd(s) ==
    LET a == IF s # <<>> /\ Head(s) = SLASH THEN Tail(s) ELSE s
    IN  IF a # <<>> /\ a[Len(a)] = SLASH THEN SubSeq(a, 1, Len(a) - 1) ELSE a

\* indexOf(c), 1-based; 0 when c does not occur (JavaScript's -1).
RECURSIVE IndexFrom(_, _, _)
IndexFrom(s, c, i) ==
    IF i > Len(s) THEN 0 ELSE IF s[i] = c THEN i ELSE IndexFrom(s, c, i + 1)

IndexOf(s, c) == IndexFrom(s, c, 1)

\* Array.prototype.join(sep)
RECURSIVE Join(_, _)
Join(ss, sep) ==
    IF ss = <<>> THEN <<>>
    ELSE IF Len(ss) = 1 THEN ss[1]
    ELSE ss[1] \o sep \o Join(Tail(ss), sep)

\* split(/\r?\n/): a line ends at "\n"; one "\r" right before it belongs to
\* the separator. Always yields at least one line.
RECURSIVE SplitLinesFrom(_, _)
SplitLinesFrom(s, cur) ==
    IF s = <<>> THEN <<cur>>
    ELSE IF Head(s) = NL THEN <<cur>> \o SplitLinesFrom(Tail(s), <<>>)
    ELSE IF Head(s) = CR /\ Len(s) >= 2 /\ s[2] = NL
         THEN <<cur>> \o SplitLinesFrom(Tail(Tail(s)), <<>>)
    ELSE SplitLinesFrom(Tail(s), Append(cur, Head(s)))

SplitLines(s) == SplitLinesFrom(s, <<>>)

\* All strings over alphabet of length at most n.
RECURSIVE StringsUpTo(_, _)
StringsUpTo(alphabet, n) ==
    IF n = 0 THEN {<<>>}
    ELSE LET shorter == StringsUpTo(alphabet, n - 1)
         IN  shorter \cup {Append(s, c) : s \in shorter, c \in alphabet}

----------------------------------------------------------------------------
(* domain/note.ts: CategoryPath *)

\* A CategoryPath is its value string; a throw is the record Thrown.
Thrown == [ok |-> FALSE, value |-> <<>>]
Returned(v) == [ok |-> TRUE, value |-> v]

\* A faulty variant of fromRaw: it omits the emptiness check.
fromRawUnchecked(raw) ==
    Returned(StripOneSlashEachEnd(CollapseSlashes(BackslashesToSlashes(Trim(raw)))))

\* CategoryPath.fromRaw
fromRaw(raw) ==
    LET normalized == CollapseSlashes(BackslashesToSlashes(Trim(raw)))
        cleaned == StripOneSlashEachEnd(normalized)
    IN  IF cleaned = <<>> THEN Thrown ELSE Returned(cleaned)

\* CategoryPath.root
root == Returned(<<>>)

----------------------------------------------------------------------------
(* adapters/fs/FsWorkspace.ts: the note-file format *)

DELIM == Chars("---")
COLON == ":"

\* fm[key] = value on a Record<string, string> kept as the sequence of its
\* entries in insertion order: an existing key keeps its place. (Keys that
\* are canonical array indices, which Object.entries lists first, are not
\* among the keys modelled.)
SetKey(fm, key, value) ==
    IF \E i \in 1..Len(fm) : fm[i][1] = key
    THEN [i \in 1..Len(fm) |-> IF fm[i][1] = key THEN <<key, value>> ELSE fm[i]]
    ELSE Append(fm, <<key, value>>)

HasKey(fm, key) == \E i \in 1..Len(fm) : fm[i][1] = key

\* fm[key]; undefined is modelled as the empty string (both are falsy).
GetKey(fm, key) ==
    IF HasKey(fm, key)
    THEN fm[CHOOSE i \in 1..Len(fm) : fm[i][1] = key][2]
    ELSE <<>>

\* The header loop of parseNoteFile from line i (1-based) on: the header
\* mapping read and the index of the first body line.
\* A faulty variant of ParseHeader: only a line that is exactly "---" closes
\* the header block.
RECURSIVE ParseHeaderExactClose(_, _, _)
ParseHeaderExactClose(lines, i, fm) ==
    IF i > Len(lines) THEN [fm |-> fm, next |-> i]
    ELSE LET line == lines[i]
             idx == IndexOf(line, COLON)
             key == Trim(SubSeq(line, 1, idx - 1))
             value == Trim(SubSeq(line, idx + 1, Len(line)))
         IN  IF line = DELIM THEN [fm |-> fm, next |-> i + 1]
             ELSE IF idx # 0 /\ key # <<>>
             THEN ParseHeaderExactClose(lines, i + 1, SetKey(fm, key, value))
             ELSE ParseHeaderExactClose(lines, i + 1, fm)

\* The header loop of parseNoteFile from line i on: [fm, next], next being
\* the index of the first body line.
RECURSIVE ParseHeader(_, _, _)
ParseHeader(lines, i, fm) ==
    IF i > Len(lines) THEN [fm |-> fm, next |-> i]
    ELSE LET line == lines[i]
             idx == IndexOf(line, COLON)
             key == Trim(SubSeq(line, 1, idx - 1))
             value == Trim(SubSeq(line, idx + 1, Len(line)))
         IN  IF line = <<>> THEN ParseHeader(lines, i + 1, fm)
             ELSE IF Trim(line) = DELIM THEN [fm |-> fm, next |-> i + 1]
             ELSE IF idx = 0 THEN ParseHeader(lines, i + 1, fm)
             ELSE IF key # <<>> THEN ParseHeader(lines, i + 1, SetKey(fm, key, value))
             ELSE ParseHeader(lines, i + 1, fm)

\* A faulty variant of parseNoteFile: it rebuilds a header-less text from its lines.
parseNoteFileRejoined(raw) ==
    LET lines == SplitLines(raw)
        h == ParseHeader(lines, 2, <<>>)
    IN  IF Trim(lines[1]) # DELIM
        THEN [frontmatter |-> <<>>, body |-> Join(lines, <<NL>>)]
        ELSE [frontmatter |-> h.fm,
              body |-> Join(SubSeq(lines, h.next, Len(lines)), <<NL>>)]

\* parseNoteFile
parseNoteFile(raw) ==
    LET lines == SplitLines(raw)
        h == ParseHeader(lines, 2, <<>>)
    IN  IF Trim(lines[1]) # DELIM
        THEN [frontmatter |-> <<>>, body |-> raw]
        ELSE [frontmatter |-> h.fm,
              body |-> Join(SubSeq(lines, h.next, Len(lines)), <<NL>>)]

\* serializeNoteFile
serializeNoteFile(parsed) ==
    LET entries == parsed.frontmatter
        fmLines == [i \in 1..Len(entries) |->
                        entries[i][1] \o <<COLON, " ">> \o entries[i][2]]
    IN  IF Len(entries) = 0 THEN parsed.body
        ELSE Join(<<DELIM>> \o fmLines \o <<DELIM, <<>>, parsed.body>>, <<NL>>)

----------------------------------------------------------------------------
(* node:path (posix), as far as FsWorkspace uses it *)

DOT == "."

\* split("/")
RECURSIVE SplitSlashFrom(_, _)
SplitSlashFrom(s, cur) ==
    IF s = <<>> THEN <<cur>>
    ELSE IF Head(s) = SLASH THEN <<cur>> \o SplitSlashFrom(Tail(s), <<>>)
    ELSE SplitSlashFrom(Tail(s), Append(cur, Head(s)))

SplitSlash(s) == SplitSlashFrom(s, <<>>)

\* normalizeString: drop empty and "." segments; ".." removes the segment
\* before it, and is kept only when there is none and the path is relative.
RECURSIVE NormalizeSegments(_, _, _)
NormalizeSegments(segs, res, allowAboveRoot) ==
    IF segs = <<>> THEN res
    ELSE LET seg == Head(segs)
             rest == Tail(segs)
         IN  IF seg = <<>> \/ seg = <<DOT>>
             THEN NormalizeSegments(rest, res, allowAboveRoot)
             ELSE IF seg = <<DOT, DOT>>
             THEN IF res # <<>> /\ res[Len(res)] # <<DOT, DOT>>
                  THEN NormalizeSegments(rest, SubSeq(res, 1, Len(res) - 1), allowAboveRoot)
                  ELSE IF allowAboveRoot
                  THEN NormalizeSegments(rest, Append(res, seg), allowAboveRoot)
                  ELSE NormalizeSegments(rest, res, allowAboveRoot)
             ELSE NormalizeSegments(rest, Append(res, seg), allowAboveRoot)

\* path.normalize
PathNormalize(p) ==
    IF p = <<>> THEN <<DOT>>
    ELSE LET isAbsolute == p[1] = SLASH
             trailingSeparator == p[Len(p)] = SLASH
             body == Join(NormalizeSegments(SplitSlash(p), <<>>, ~isAbsolute), <<SLASH>>)
             withSep == IF trailingSeparator THEN body \o <<SLASH>> ELSE body
         IN  IF body = <<>>
             THEN (IF isAbsolute THEN <<SLASH>>
                   ELSE IF trailingSeparator THEN <<DOT, SLASH>> ELSE <<DOT>>)
             ELSE IF isAbsolute THEN <<SLASH>> \o withSep ELSE withSep

\* path.join(a, b): the non-empty arguments joined by "/" and normalized.
PathJoin(a, b) ==
    IF a = <<>> /\ b = <<>> THEN <<DOT>>
    ELSE IF a = <<>> THEN PathNormalize(b)
    ELSE IF b = <<>> THEN PathNormalize(a)
    ELSE PathNormalize(a \o <<SLASH>> \o b)

\* The index of the last character that is not a trailing slash (0 if none).
RECURSIVE LastNonSlash(_, _)
LastNonSlash(p, i) ==
    IF i = 0 THEN 0 ELSE IF p[i] # SLASH THEN i ELSE LastNonSlash(p, i - 1)

\* The index of the last slash at or before i (0 if none).
RECURSIVE LastSlashUpTo(_, _)
LastSlashUpTo(p, i) ==
    IF i = 0 THEN 0 ELSE IF p[i] = SLASH THEN i ELSE LastSlashUpTo(p, i - 1)

\* path.dirname
PathDirname(p) ==
    IF p = <<>> THEN <<DOT>>
    ELSE LET hasRoot == p[1] = SLASH
             e == LastNonSlash(p, Len(p))
             sl == LastSlashUpTo(p, e)
         IN  IF sl <= 1 THEN (IF hasRoot THEN <<SLASH>> ELSE <<DOT>>)
             ELSE IF hasRoot /\ sl = 2 THEN <<SLASH, SLASH>>
             ELSE SubSeq(p, 1, sl - 1)

\* path.basename(p)
PathBasename(p) ==
    LET e == LastNonSlash(p, Len(p))
        sl == LastSlashUpTo(p, e)
    IN  SubSeq(p, sl + 1, e)

\* path.extname
PathExtname(p) ==
    LET b == PathBasename(p)
        dots == {i \in 1..Len(b) : b[i] = DOT}
        d == IF dots = {} THEN 0 ELSE CHOOSE i \in dots : \A j \in dots : j <= i
    IN  IF d <= 1 \/ b = <<DOT, DOT>> THEN <<>> ELSE SubSeq(b, d, Len(b))

\* path.basename(p, ext)
PathBasenameExt(p, ext) ==
    LET b == PathBasename(p)
    IN  IF ext # <<>> /\ Len(b) > Len(ext)
           /\ SubSeq(b, Len(b) - Len(ext) + 1, Len(b)) = ext
        THEN SubSeq(b, 1, Len(b) - Len(ext))
        ELSE b

----------------------------------------------------------------------------
(* adapters/fs/FsWorkspace.ts: the workspace *)

\* The workspaceRoot FsWorkspace is constructed with.
Root == Chars("/ws")

CATEGORY == Chars("category")

\* Note.category: a CategoryPath value, or undefined.
NoCategory == [defined |-> FALSE, value |-> <<>>]
Category(v) == [defined |-> TRUE, value |-> v]

NoNote == [id |-> <<>>, path |-> <<>>, title |-> <<>>, content |-> <<>>,
           category |-> NoCategory]

StartsWith(s, prefix) ==
    Len(s) >= Len(prefix) /\ SubSeq(s, 1, Len(prefix)) = prefix

\* deriveTitle
deriveTitle(relPath, body) ==
    LET lines == SplitLines(body)
        hits == {i \in 1..Len(lines) : StartsWith(Trim(lines[i]), <<"#", " ">>)}
        h1 == lines[CHOOSE i \in hits : \A j \in hits : i <= j]
        \* h1.replace(/^#\s*/, "")
        stripped == IF h1 # <<>> /\ h1[1] = "#" THEN TrimStart(Tail(h1)) ELSE h1
    IN  IF hits # {}
        THEN (IF Trim(stripped) # <<>> THEN Trim(stripped) ELSE PathBasename(relPath))
        ELSE PathBasenameExt(relPath, PathExtname(relPath))

\* FsWorkspace.resolveAbsolute
resolveAbsolute(relPath) ==
    PathJoin(Root, StripLeadingSlashes(BackslashesToSlashes(relPath)))

\* FsWorkspace.deriveCategoryFromPath: [ok, category]; ok is FALSE when
\* CategoryPath.fromRaw throws.
deriveCategoryFromPath(relPath) ==
    LET dir == BackslashesToSlashes(PathDirname(relPath))
        r == fromRaw(dir)
    IN  IF dir = <<DOT>> \/ dir = <<>> THEN [ok |-> TRUE, category |-> NoCategory]
        ELSE IF r.ok THEN [ok |-> TRUE, category |-> Category(r.value)]
        ELSE [ok |-> FALSE, category |-> NoCategory]

\* FsWorkspace.loadNote on the filesystem fs: [ok, note]; ok is FALSE when
\* fs.readFile or CategoryPath.fromRaw throws.
loadNote(fs, relPath) ==
    LET absPath == resolveAbsolute(relPath)
        parsed == parseNoteFile(fs[absPath])
        categoryFromFm == GetKey(parsed.frontmatter, CATEGORY)
        fromFm == fromRaw(categoryFromFm)
        category ==
            IF categoryFromFm # <<>> /\ Trim(categoryFromFm) # <<>>
            THEN (IF fromFm.ok THEN [ok |-> TRUE, category |-> Category(fromFm.value)]
                  ELSE [ok |-> FALSE, category |-> NoCategory])
            ELSE deriveCategoryFromPath(relPath)
    IN  IF absPath \notin DOMAIN fs THEN [ok |-> FALSE, note |-> NoNote]
        ELSE IF ~category.ok THEN [ok |-> FALSE, note |-> NoNote]
        ELSE [ok |-> TRUE,
              note |-> [id |-> relPath, path |-> relPath,
                        title |-> deriveTitle(relPath, parsed.body),
                        content |-> parsed.body,
                        category |-> category.category]]

\* A directory strictly below the workspace root, and its root-relative path.
UnderRoot(d) == StartsWith(d, Root \o <<SLASH>>) /\ Len(d) > Len(Root) + 1
RelToRoot(d) == SubSeq(d, Len(Root) + 2, Len(d))

\* FsWorkspace.listCategories on the directories ds: [ok, categories]; the
\* result array has one CategoryPath per directory walked, kept here as the
\* mapping from the directory's root-relative path. ok is FALSE when
\* CategoryPath.fromRaw throws.
listCategories(ds) ==
    LET walked == {RelToRoot(d) : d \in {x \in ds : UnderRoot(x)}}
    IN  IF \E c \in walked : ~fromRaw(c).ok
        THEN [ok |-> FALSE, categories |-> <<>>]
        ELSE [ok |-> TRUE, categories |-> [c \in walked |-> fromRaw(c).value]]

\* A directory and every directory above it.
RECURSIVE SelfAndAncestors(_)
SelfAndAncestors(d) ==
    IF d = <<SLASH>> \/ d = <<DOT>> \/ PathDirname(d) = d THEN {d}
    ELSE {d} \cup SelfAndAncestors(PathDirname(d))

\* A faulty variant of applyLocals: it leaves the header as it was read.
applyLocalsHeaderKept(notePath, newCategory, raw) ==
    LET currentRel == StripLeadingSlashes(BackslashesToSlashes(notePath))
        fileName == PathBasename(currentRel)
        newRel == StripLeadingSlashes(BackslashesToSlashes(PathJoin(newCategory, fileName)))
    IN  [absOld |-> resolveAbsolute(currentRel),
         absNew |-> resolveAbsolute(newRel),
         newRel |-> newRel,
         newContent |-> serializeNoteFile(parseNoteFile(raw))]

\* The locals applyCategoryChange computes between reading the note and
\* its first write (notePath read as text raw).
applyLocals(notePath, newCategory, raw) ==
    LET currentRel == StripLeadingSlashes(BackslashesToSlashes(notePath))
        parsed == parseNoteFile(raw)
        updated == [parsed EXCEPT !.frontmatter = SetKey(@, CATEGORY, newCategory)]
        fileName == PathBasename(currentRel)
        newRel == StripLeadingSlashes(BackslashesToSlashes(PathJoin(newCategory, fileName)))
    IN  [absOld |-> resolveAbsolute(currentRel),
         absNew |-> resolveAbsolute(newRel),
         newRel |-> newRel,
         newContent |-> serializeNoteFile(updated)]

NoApply == [absOld |-> <<>>, absNew |-> <<>>, newRel |-> <<>>, newContent |-> <<>>]

\* A faulty variant of NeedsUnlink: it deletes the old path unconditionally.
AlwaysUnlink(absNew, absOld) == TRUE

\* applyCategoryChange's guard of fs.unlink
NeedsUnlink(absNew, absOld) == absNew # absOld

----------------------------------------------------------------------------
(* Bounded inputs of the pure functions *)

MaxRawLen == 4
MaxLines == 4

\* Raw category strings: every string of at most MaxRawLen characters over a
\* letter, both slashes and a blank.
CatAlphabet == {"a", SLASH, BACKSLASH, " "}
RawStrings == StringsUpTo(CatAlphabet, MaxRawLen)

\* File texts: up to MaxLines lines of LinePool joined by "\n". A line ending
\* in "\r" makes a CRLF line break (or a lone trailing CR when it is last).
LinePool ==
    { Chars("---"), Chars(" ---"), <<>>, Chars("a: b"), Chars("b:c "),
      Chars("x"), <<"x", CR>> }

RECURSIVE LineSeqs(_)
LineSeqs(n) ==
    IF n = 0 THEN {<<>>}
    ELSE {Append(ls, l) : ls \in LineSeqs(n - 1), l \in LinePool}

Texts == UNION {{Join(ls, <<NL>>) : ls \in LineSeqs(n)} : n \in 1..MaxLines}

\* Header mappings of the round trip: non-empty, flat, trimmed keys without a
\* colon, trimmed values.
HeaderKeys == {Chars("a"), Chars("category")}
HeaderValues == {Chars("b"), Chars("x y"), Chars("A/B")}
Headers ==
    {<<<<k, v>>>> : k \in HeaderKeys, v \in HeaderValues}
    \cup {h \in {<<<<k1, v1>>, <<k2, v2>>>> :
                    k1 \in HeaderKeys, k2 \in HeaderKeys,
                    v1 \in HeaderValues, v2 \in HeaderValues} :
            h[1][1] # h[2][1]}
Bodies ==
    { <<>>, Chars("x"), Chars("x\ny"), Chars("# T\n\nx"), Chars("x\n"),
      Chars("\nx"), Chars("---") }

NoParsed == [frontmatter |-> <<>>, body |-> <<>>]

\* Values of the variables a specification does not use.
IdleCp == cpRaw = <<>> /\ cpOut = Thrown /\ cpAgain = Thrown /\ cpStage = "idle"
IdleNf ==
    /\ nfOrigin = "none" /\ nfText = <<>> /\ nfParsed = NoParsed
    /\ nfSerial = <<>> /\ nfReparsed = NoParsed /\ nfStage = "idle"

IdleTi == tiPath = <<>> /\ tiBody = <<>> /\ tiTitle = <<>> /\ tiStage = "idle"

NoTool == [name |-> "none", path |-> <<>>, newCategory |-> <<>>, status |-> "none"]
IdleAg == agStage = "idle" /\ agStep = 0 /\ agTool = NoTool

NoOutcome == [status |-> "none", wasMoved |-> FALSE, updatedNote |-> NoNote,
              failedAt |-> "none"]

NoPrev == [returned |-> FALSE, wasMoved |-> FALSE, path |-> <<>>, decision |-> <<>>]

IdleEx ==
    /\ pc = "idle" /\ runs = 0 /\ relativePath = <<>>
    /\ originalNote = NoNote /\ availableCategories = <<>>
    /\ decision = <<>> /\ apply = NoApply /\ outcome = NoOutcome
    /\ calls = <<>> /\ fsOps = <<>> /\ lastPath = <<>>
    /\ prev = NoPrev

IdleWs ==
    /\ files = <<>> /\ dirs = {<<SLASH>>, Root}
    /\ files0 = <<>> /\ dirs0 = {<<SLASH>>, Root}
    /\ IdleEx

----------------------------------------------------------------------------
(* SpecCategoryPath: CategoryPath.fromRaw and root on bounded raw strings *)

\* fromRaw(cpRaw)
CpFromRaw ==
    /\ cpStage = "input"
    /\ cpOut' = fromRaw(cpRaw)
    /\ cpStage' = "once"
    /\ UNCHANGED <<cpRaw, cpAgain>>

\* fromRaw(fromRaw(cpRaw).toString())
CpFromRawAgain ==
    /\ cpStage = "once"
    /\ cpOut.ok
    /\ cpAgain' = fromRaw(cpOut.value)
    /\ cpStage' = "twice"
    /\ UNCHANGED <<cpRaw, cpOut>>

\* CategoryPath.root()
CpRoot ==
    /\ cpStage = "input"
    /\ cpOut' = root
    /\ cpStage' = "root"
    /\ UNCHANGED <<cpRaw, cpAgain>>

InitCategoryPath ==
    /\ cpRaw \in RawStrings
    /\ cpOut = Thrown /\ cpAgain = Thrown /\ cpStage = "input"
    /\ IdleNf /\ IdleTi /\ IdleAg /\ IdleWs

NextCategoryPath ==
    \/ CpFromRaw /\ UNCHANGED <<nfVars, tiVars, agVars, wsVars>>
    \/ CpFromRawAgain /\ UNCHANGED <<nfVars, tiVars, agVars, wsVars>>
    \/ CpRoot /\ UNCHANGED <<nfVars, tiVars, agVars, wsVars>>

SpecCategoryPath == InitCategoryPath /\ [][NextCategoryPath]_vars

----------------------------------------------------------------------------
(* SpecNoteFile: parseNoteFile and serializeNoteFile on bounded inputs *)

\* parseNoteFile(nfText)
NfParse ==
    /\ nfStage = "text"
    /\ nfParsed' = parseNoteFile(nfText)
    /\ nfStage' = "parsed"
    /\ UNCHANGED <<nfOrigin, nfText, nfSerial, nfReparsed>>

\* serializeNoteFile(nfParsed)
NfSerialize ==
    /\ nfStage = "parsed"
    /\ nfSerial' = serializeNoteFile(nfParsed)
    /\ nfStage' = "serialized"
    /\ UNCHANGED <<nfOrigin, nfText, nfParsed, nfReparsed>>

\* parseNoteFile(nfSerial)
NfReparse ==
    /\ nfStage = "serialized"
    /\ nfReparsed' = parseNoteFile(nfSerial)
    /\ nfStage' = "reparsed"
    /\ UNCHANGED <<nfOrigin, nfText, nfParsed, nfSerial>>

InitNoteFile ==
    /\ \/ /\ nfOrigin = "text"
          /\ nfText \in Texts
          /\ nfParsed = NoParsed
          /\ nfStage = "text"
       \/ /\ nfOrigin = "record"
          /\ nfText = <<>>
          /\ nfParsed \in [frontmatter : Headers, body : Bodies]
          /\ nfStage = "parsed"
    /\ nfSerial = <<>> /\ nfReparsed = NoParsed
    /\ IdleCp /\ IdleTi /\ IdleAg /\ IdleWs

NextNoteFile ==
    \/ NfParse /\ UNCHANGED <<cpVars, tiVars, agVars, wsVars>>
    \/ NfSerialize /\ UNCHANGED <<cpVars, tiVars, agVars, wsVars>>
    \/ NfReparse /\ UNCHANGED <<cpVars, tiVars, agVars, wsVars>>

SpecNoteFile == InitNoteFile /\ [][NextNoteFile]_vars

----------------------------------------------------------------------------
(* SpecTitle: deriveTitle on bounded bodies *)

MaxBodyLines == 2

\* Bodies: up to MaxBodyLines lines of TitleLinePool joined by "\n"; headings
\* plain, indented, empty, without the blank, and of level 2.
TitleLinePool ==
    { Chars("# My Title"), Chars("# T "), Chars("  # T"), Chars("#T"),
      Chars("# "), Chars("#"), Chars("## S"), Chars("no heading here"), <<>> }

RECURSIVE TitleLineSeqs(_)
TitleLineSeqs(n) ==
    IF n = 0 THEN {<<>>}
    ELSE {Append(ls, l) : ls \in TitleLineSeqs(n - 1), l \in TitleLinePool}

TitleBodies ==
    UNION {{Join(ls, <<NL>>) : ls \in TitleLineSeqs(n)} : n \in 1..MaxBodyLines}

TitlePaths == {Chars("notes/foo.md"), Chars("n.md"), Chars("a/b.c.txt"), Chars("README")}

\* deriveTitle(tiPath, tiBody)
TiDeriveTitle ==
    /\ tiStage = "input"
    /\ tiTitle' = deriveTitle(tiPath, tiBody)
    /\ tiStage' = "titled"
    /\ UNCHANGED <<tiPath, tiBody>>

InitTitle ==
    /\ tiPath \in TitlePaths
    /\ tiBody \in TitleBodies
    /\ tiTitle = <<>> /\ tiStage = "input"
    /\ IdleCp /\ IdleNf /\ IdleAg /\ IdleWs

NextTitle ==
    TiDeriveTitle /\ UNCHANGED <<cpVars, nfVars, agVars, wsVars>>

SpecTitle == InitTitle /\ [][NextTitle]_vars

----------------------------------------------------------------------------
(* Spec: CategorizeNoteUseCase.execute over FsWorkspace *)

MaxRuns == 2

\* The notes a workspace starts with: one note under test at a seed path with
\* a seed text, and possibly another note at AI/n.md.
SeedPaths == {Chars("in/n.md"), Chars("n.md"), Chars("AI/n.md")}
SeedTexts ==
    { Chars("x"),
      Chars("---\ncategory: AI\n---\n# T\nx"),
      Chars("---\ntag: t\ncategory: in\n---\n\nx\r\ny") }
OtherPath == Chars("AI/n.md")
OtherText == Chars("# Other")

\* The paths execute() is asked for, besides the path of the last result.
RequestPaths ==
    {Chars("in/n.md"), Chars("/in/n.md"), Chars("n.md"), Chars("/n.md"), Chars("AI/n.md")}

\* The category strings the language model may answer with.
OracleRaws ==
    {Chars("AI"), Chars("in"), Chars("A/B"), Chars("/ AI"), Chars("//"), Chars("..")}

\* A filesystem call either succeeds or throws an I/O error.
IOResults == {"ok", "error"}

Threw(step) == [NoOutcome EXCEPT !.status = "threw", !.failedAt = step]

\* A faulty variant of ReturnedResult: it always reports wasMoved: false.
ReturnedNeverMoved(moved, note) ==
    [status |-> "returned", wasMoved |-> FALSE, updatedNote |-> note,
     failedAt |-> "none"]

\* What execute() returns: {originalNote, updatedNote, wasMoved, reasoning}
ReturnedResult(moved, note) ==
    [status |-> "returned", wasMoved |-> moved, updatedNote |-> note,
     failedAt |-> "none"]

\* originalNote.category?.toString() ?? ""
currentCategoryStr(note) == note.category.value

\* A faulty variant of SameCategory: it never finds the categories equal.
NeverSameCategory(currentStr, suggestedStr) == FALSE

\* execute's comparison currentCategoryStr === suggestedCategoryStr
SameCategory(currentStr, suggestedStr) == currentStr = suggestedStr

\* A faulty variant of OnOracleError: it calls the oracle again.
RetryOracle == "suggestCategory"

\* Where execute() goes when suggestCategory throws: the error propagates.
OnOracleError == "failed"

\* A faulty variant of OnLoadError: it swallows the error and goes on.
SwallowLoadError == "listCategories"

\* Where execute() goes when loadNote throws: no try/catch surrounds the
\* await, so the error propagates to the caller.
OnLoadError == "failed"

\* The caller invokes execute({relativePath: rp}).
Start(rp) ==
    /\ pc \in {"idle", "done", "failed"}
    /\ runs < MaxRuns
    /\ pc' = "loadNote"
    /\ runs' = runs + 1
    /\ relativePath' = rp
    /\ originalNote' = NoNote
    /\ availableCategories' = <<>>
    /\ decision' = <<>>
    /\ apply' = NoApply
    /\ outcome' = NoOutcome
    /\ calls' = <<>>
    /\ fsOps' = <<>>
    /\ files0' = files
    /\ dirs0' = dirs
    /\ prev' = IF outcome.status = "returned"
               THEN [returned |-> TRUE, wasMoved |-> outcome.wasMoved,
                     path |-> outcome.updatedNote.path, decision |-> decision]
               ELSE NoPrev
    /\ UNCHANGED <<files, dirs, lastPath>>

StartExecute ==
    \E rp \in RequestPaths \cup (IF lastPath = <<>> THEN {} ELSE {lastPath}) : Start(rp)

\* Step 1: await workspace.loadNote(relativePath)
ExLoadNote ==
    /\ pc = "loadNote"
    /\ calls' = Append(calls, "loadNote")
    /\ \E io \in IOResults :
        LET r == loadNote(files, relativePath)
        IN  IF io = "ok" /\ r.ok
            THEN /\ originalNote' = r.note
                 /\ pc' = "listCategories"
                 /\ UNCHANGED outcome
            ELSE /\ pc' = OnLoadError
                 /\ outcome' = Threw("loadNote")
                 /\ UNCHANGED originalNote
    /\ UNCHANGED <<files, dirs, runs, relativePath, availableCategories, decision,
                   apply, fsOps, files0, dirs0, lastPath, prev>>

\* Step 2: await workspace.listCategories()
ExListCategories ==
    /\ pc = "listCategories"
    /\ calls' = Append(calls, "listCategories")
    /\ \E io \in IOResults :
        LET r == listCategories(dirs)
        IN  IF io = "ok" /\ r.ok
            THEN /\ availableCategories' = r.categories
                 /\ pc' = "suggestCategory"
                 /\ UNCHANGED outcome
            ELSE /\ pc' = "failed"
                 /\ outcome' = Threw("listCategories")
                 /\ UNCHANGED availableCategories
    /\ UNCHANGED <<files, dirs, runs, relativePath, originalNote, decision,
                   apply, fsOps, files0, dirs0, lastPath, prev>>

\* Step 3: await categorizer.suggestCategory(...), whose adapter builds the
\* suggestion with CategoryPath.fromRaw; then the comparison of step 4.
ExSuggestCategory ==
    /\ pc = "suggestCategory"
    /\ calls' = Append(calls, "suggestCategory")
    /\ \E io \in IOResults, raw \in OracleRaws :
        LET r == fromRaw(raw)
        IN  IF io = "ok" /\ r.ok
            THEN /\ decision' = r.value
                 /\ IF SameCategory(currentCategoryStr(originalNote), r.value)
                    THEN /\ pc' = "done"
                         /\ outcome' = ReturnedResult(FALSE, originalNote)
                         /\ lastPath' = originalNote.path
                    ELSE /\ pc' = "applyRead"
                         /\ UNCHANGED <<outcome, lastPath>>
            ELSE /\ pc' = OnOracleError
                 /\ outcome' = Threw("suggestCategory")
                 /\ UNCHANGED <<decision, lastPath>>
    /\ UNCHANGED <<files, dirs, runs, relativePath, originalNote,
                   availableCategories, apply, fsOps, files0, dirs0, prev>>

\* A faulty variant of DirsAfterFailedRead: the destination directory is
\* made before the source is read.
DirsMadeBeforeRead(ds, notePath, newCategory) ==
    LET currentRel == StripLeadingSlashes(BackslashesToSlashes(notePath))
        newRel == StripLeadingSlashes(BackslashesToSlashes(
                      PathJoin(newCategory, PathBasename(currentRel))))
    IN  ds \cup SelfAndAncestors(PathDirname(resolveAbsolute(newRel)))

\* The directories applyCategoryChange leaves when fs.readFile(absOld)
\* throws: the read comes before fs.mkdir and its error propagates.
DirsAfterFailedRead(ds, notePath, newCategory) == ds

\* workspace.applyCategoryChange(relativePath, suggestedCategory), up to its
\* await fs.readFile(absOld) and the path computations that follow it.
ApplyRead ==
    /\ pc = "applyRead"
    /\ calls' = Append(calls, "applyCategoryChange")
    /\ \E io \in IOResults :
        LET absOld == resolveAbsolute(StripLeadingSlashes(BackslashesToSlashes(relativePath)))
        IN  IF io = "ok" /\ absOld \in DOMAIN files
            THEN /\ apply' = applyLocals(relativePath, decision, files[absOld])
                 /\ pc' = "applyMkdir"
                 /\ UNCHANGED <<outcome, dirs>>
            ELSE /\ pc' = "failed"
                 /\ outcome' = Threw("readFile")
                 /\ dirs' = DirsAfterFailedRead(dirs, relativePath, decision)
                 /\ UNCHANGED apply
    /\ UNCHANGED <<files, runs, relativePath, originalNote,
                   availableCategories, decision, fsOps, files0, dirs0, lastPath, prev>>

\* await fs.mkdir(path.dirname(absNew), {recursive: true})
ApplyMkdir ==
    /\ pc = "applyMkdir"
    /\ \E io \in IOResults :
        LET dir == PathDirname(apply.absNew)
            chain == SelfAndAncestors(dir)
        IN  IF io = "ok" /\ chain \cap DOMAIN files = {}
            THEN /\ dirs' = dirs \cup chain
                 /\ fsOps' = Append(fsOps, [op |-> "mkdir", path |-> dir])
                 /\ pc' = "applyWrite"
                 /\ UNCHANGED outcome
            ELSE /\ pc' = "failed"
                 /\ outcome' = Threw("mkdir")
                 /\ UNCHANGED <<dirs, fsOps>>
    /\ UNCHANGED <<files, runs, relativePath, originalNote, availableCategories,
                   decision, apply, calls, files0, dirs0, lastPath, prev>>

\* await fs.writeFile(absNew, newContent), then the test absNew !== absOld
ApplyWrite ==
    /\ pc = "applyWrite"
    /\ \E io \in IOResults :
        IF io = "ok" /\ apply.absNew \notin dirs
        THEN /\ files' = (apply.absNew :> apply.newContent) @@ files
             /\ fsOps' = Append(fsOps, [op |-> "writeFile", path |-> apply.absNew])
             /\ pc' = IF NeedsUnlink(apply.absNew, apply.absOld)
                      THEN "applyUnlink" ELSE "applyReload"
             /\ UNCHANGED outcome
        ELSE /\ pc' = "failed"
             /\ outcome' = Threw("writeFile")
             /\ UNCHANGED <<files, fsOps>>
    /\ UNCHANGED <<dirs, runs, relativePath, originalNote, availableCategories,
                   decision, apply, calls, files0, dirs0, lastPath, prev>>

\* A faulty variant of FilesAfterFailedUnlink: it rolls the write back.
RollbackNewFile(fs, ap) == [f \in DOMAIN fs \ {ap.absNew} |-> fs[f]]

\* The files applyCategoryChange leaves when fs.unlink throws: the error
\* propagates out of the method, which has no catch and no cleanup.
FilesAfterFailedUnlink(fs, ap) == fs

\* await fs.unlink(absOld)
ApplyUnlink ==
    /\ pc = "applyUnlink"
    /\ \E io \in IOResults :
        IF io = "ok" /\ apply.absOld \in DOMAIN files
        THEN /\ files' = [f \in DOMAIN files \ {apply.absOld} |-> files[f]]
             /\ fsOps' = Append(fsOps, [op |-> "unlink", path |-> apply.absOld])
             /\ pc' = "applyReload"
             /\ UNCHANGED outcome
        ELSE /\ pc' = "failed"
             /\ outcome' = Threw("unlink")
             /\ files' = FilesAfterFailedUnlink(files, apply)
             /\ UNCHANGED fsOps
    /\ UNCHANGED <<dirs, runs, relativePath, originalNote, availableCategories,
                   decision, apply, calls, files0, dirs0, lastPath, prev>>

\* await this.loadNote(newRel); execute() then returns wasMoved: true
ApplyReload ==
    /\ pc = "applyReload"
    /\ \E io \in IOResults :
        LET r == loadNote(files, apply.newRel)
        IN  IF io = "ok" /\ r.ok
            THEN /\ pc' = "done"
                 /\ outcome' = ReturnedResult(TRUE, r.note)
                 /\ lastPath' = r.note.path
            ELSE /\ pc' = "failed"
                 /\ outcome' = Threw("reload")
                 /\ UNCHANGED lastPath
    /\ UNCHANGED <<files, dirs, runs, relativePath, originalNote,
                   availableCategories, decision, apply, calls, fsOps, files0, dirs0,
                   prev>>

AbsOf(rel) == Root \o <<SLASH>> \o rel

Init ==
    /\ \E sp \in SeedPaths, st \in SeedTexts, other \in BOOLEAN :
        /\ files = IF other
                   THEN (AbsOf(sp) :> st) @@ (AbsOf(OtherPath) :> OtherText)
                   ELSE (AbsOf(sp) :> st)
        /\ dirs = UNION {SelfAndAncestors(PathDirname(f)) : f \in DOMAIN files}
    /\ files0 = files
    /\ dirs0 = dirs
    /\ IdleEx
    /\ IdleCp /\ IdleNf /\ IdleTi /\ IdleAg

Next ==
    \/ StartExecute /\ UNCHANGED <<cpVars, nfVars, tiVars, agVars>>
    \/ ExLoadNote /\ UNCHANGED <<cpVars, nfVars, tiVars, agVars>>
    \/ ExListCategories /\ UNCHANGED <<cpVars, nfVars, tiVars, agVars>>
    \/ ExSuggestCategory /\ UNCHANGED <<cpVars, nfVars, tiVars, agVars>>
    \/ ApplyRead /\ UNCHANGED <<cpVars, nfVars, tiVars, agVars>>
    \/ ApplyMkdir /\ UNCHANGED <<cpVars, nfVars, tiVars, agVars>>
    \/ ApplyWrite /\ UNCHANGED <<cpVars, nfVars, tiVars, agVars>>
    \/ ApplyUnlink /\ UNCHANGED <<cpVars, nfVars, tiVars, agVars>>
    \/ ApplyReload /\ UNCHANGED <<cpVars, nfVars, tiVars, agVars>>

Spec == Init /\ [][Next]_vars

----------------------------------------------------------------------------
(* SpecAgent: categorizeNoteAgent, the tool-calling loop over FsWorkspace.
   generateText runs steps: in each step the language model either answers
   with text, which ends the loop, or asks for a tool call, which is executed
   and whose result or error is handed back; the loop goes on while the last
   step called a tool and stopWhen does not hold. *)

StepLimit == 8

\* stepCountIs(count): the stop condition "the number of steps is count"
stepCountIs(count, steps) == steps = count

\* A faulty variant of stopWhen: it never stops the loop.
NeverStops(steps) == FALSE

\* stopWhen: stepCountIs(8)
stopWhen(steps) == stepCountIs(StepLimit, steps)

\* The answers of the language model are not bounded by the program; the
\* model is asked at most this many times.
MaxModelTurns == 10

\* The tool calls the language model may ask for.
AgentPaths == {Chars("in/n.md"), Chars("AI/n.md")}
AgentRaws == {Chars("AI"), Chars("//")}
ToolCalls ==
    {[name |-> "load_note", path |-> p, newCategory |-> <<>>, status |-> "called"] :
        p \in AgentPaths}
    \cup {[name |-> "list_categories", path |-> <<>>, newCategory |-> <<>>,
            status |-> "called"]}
    \cup {[name |-> "apply_category_change", path |-> p, newCategory |-> c,
            status |-> "called"] : p \in AgentPaths, c \in AgentRaws}

\* Where the loop goes once the tool call of step number steps has returned.
AfterStep(steps) == IF stopWhen(steps) THEN "completed" ELSE "awaiting-decision"

\* categorizeNoteAgent(input) calls generateText; input.relativePath only
\* appears in the prompt.
AgStart ==
    /\ agStage = "idle"
    /\ agStage' = "awaiting-decision"
    /\ agStep' = 0
    /\ agTool' = NoTool
    /\ UNCHANGED wsVars

\* One generation of the language model: a final text (or a failed request),
\* after which generateText returns (or throws); or a tool call.
AgModelDecides ==
    /\ agStage = "awaiting-decision"
    /\ agStep < MaxModelTurns
    /\ agStep' = agStep + 1
    /\ \/ agStage' = "completed" /\ agTool' = NoTool
       \/ \E t \in ToolCalls : agStage' = "tool-invoked" /\ agTool' = t
    /\ UNCHANGED wsVars

\* load_note.execute({path})
AgToolLoadNote ==
    /\ agStage = "tool-invoked"
    /\ agTool.name = "load_note" /\ agTool.status = "called"
    /\ \E io \in IOResults :
        agTool' = [agTool EXCEPT !.status =
                      IF io = "ok" /\ loadNote(files, agTool.path).ok
                      THEN "ok" ELSE "error"]
    /\ calls' = <<"loadNote">>
    /\ agStage' = AfterStep(agStep)
    /\ UNCHANGED <<agStep, files, dirs, pc, runs, relativePath, originalNote,
                   availableCategories, decision, apply, outcome, fsOps, files0,
                   dirs0, lastPath, prev>>

\* list_categories.execute({})
AgToolListCategories ==
    /\ agStage = "tool-invoked"
    /\ agTool.name = "list_categories" /\ agTool.status = "called"
    /\ \E io \in IOResults :
        agTool' = [agTool EXCEPT !.status =
                      IF io = "ok" /\ listCategories(dirs).ok
                      THEN "ok" ELSE "error"]
    /\ calls' = <<"listCategories">>
    /\ agStage' = AfterStep(agStep)
    /\ UNCHANGED <<agStep, files, dirs, pc, runs, relativePath, originalNote,
                   availableCategories, decision, apply, outcome, fsOps, files0,
                   dirs0, lastPath, prev>>

\* apply_category_change.execute({path, newCategory}): CategoryPath.fromRaw,
\* then the call of workspace.applyCategoryChange (which the Apply actions
\* carry out; outcome is then what applyCategoryChange gave the tool).
AgToolApply ==
    /\ agStage = "tool-invoked"
    /\ agTool.name = "apply_category_change" /\ agTool.status = "called"
    /\ calls' = <<"fromRaw">>
    /\ LET categoryPath == fromRaw(agTool.newCategory)
       IN  IF categoryPath.ok
           THEN /\ agTool' = [agTool EXCEPT !.status = "running"]
                /\ pc' = "applyRead"
                /\ relativePath' = agTool.path
                /\ decision' = categoryPath.value
                /\ apply' = NoApply
                /\ outcome' = NoOutcome
                /\ fsOps' = <<>>
                /\ files0' = files
                /\ dirs0' = dirs
                /\ UNCHANGED agStage
           ELSE /\ agTool' = [agTool EXCEPT !.status = "error"]
                /\ agStage' = AfterStep(agStep)
                /\ UNCHANGED <<pc, relativePath, decision, apply, outcome, fsOps,
                               files0, dirs0>>
    /\ UNCHANGED <<agStep, files, dirs, runs, originalNote, availableCategories,
                   lastPath, prev>>

\* workspace.applyCategoryChange has returned or thrown: the tool call ends.
AgToolApplyReturns ==
    /\ agStage = "tool-invoked"
    /\ agTool.status = "running"
    /\ pc \in {"done", "failed"}
    /\ agTool' = [agTool EXCEPT !.status = IF pc = "done" THEN "ok" ELSE "error"]
    /\ agStage' = AfterStep(agStep)
    /\ UNCHANGED <<agStep, wsVars>>

InitAgent ==
    /\ files = (AbsOf(Chars("in/n.md")) :> Chars("# T\nx"))
    /\ dirs = UNION {SelfAndAncestors(PathDirname(f)) : f \in DOMAIN files}
    /\ files0 = files
    /\ dirs0 = dirs
    /\ IdleEx
    /\ IdleCp /\ IdleNf /\ IdleTi /\ IdleAg

NextAgent ==
    \/ AgStart /\ UNCHANGED <<cpVars, nfVars, tiVars>>
    \/ AgModelDecides /\ UNCHANGED <<cpVars, nfVars, tiVars>>
    \/ AgToolLoadNote /\ UNCHANGED <<cpVars, nfVars, tiVars>>
    \/ AgToolListCategories /\ UNCHANGED <<cpVars, nfVars, tiVars>>
    \/ AgToolApply /\ UNCHANGED <<cpVars, nfVars, tiVars>>
    \/ AgToolApplyReturns /\ UNCHANGED <<cpVars, nfVars, tiVars>>
    \/ ApplyRead /\ UNCHANGED <<cpVars, nfVars, tiVars, agVars>>
    \/ ApplyMkdir /\ UNCHANGED <<cpVars, nfVars, tiVars, agVars>>
    \/ ApplyWrite /\ UNCHANGED <<cpVars, nfVars, tiVars, agVars>>
    \/ ApplyUnlink /\ UNCHANGED <<cpVars, nfVars, tiVars, agVars>>
    \/ ApplyReload /\ UNCHANGED <<cpVars, nfVars, tiVars, agVars>>

SpecAgent == InitAgent /\ [][NextAgent]_vars

\* Properties
----------------------------------------------------------------------------
(* Claims about the note-file format (SpecNoteFile) *)

\* The first line of a text: the characters before its first line break.
FirstLine(text) == SplitLines(text)[1]

\* C1: round trip of the note-file format. For every non-empty flat header
\* mapping H and every body B, parse(serialize({H,B})) has header H and body
\* exactly B; and parse -> serialize -> parse of any file text preserves the
\* header entries and the body exactly.
C1_RoundTrip ==
    nfStage = "reparsed" =>
        /\ nfReparsed.frontmatter = nfParsed.frontmatter
        /\ nfReparsed.body = nfParsed.body

BodyAfterBlock(lines, isDelim(_)) ==
    LET closers == {j \in 2..Len(lines) : isDelim(lines[j])}
        close == CHOOSE j \in closers : \A k \in closers : j <= k
    IN  IF closers = {} THEN <<>>
        ELSE Join(SubSeq(lines, close + 1, Len(lines)), <<NL>>)

IsExactDelimiter(line) == line = DELIM
IsTrimmedDelimiter(line) == Trim(line) = DELIM

----------------------------------------------------------------------------
(* Claims about CategoryPath (SpecCategoryPath) *)

WhitespaceOnly(s) == \A i \in 1..Len(s) : IsSpace(s[i])
SlashesOnly(s) == \A i \in 1..Len(s) : s[i] \in {SLASH, BACKSLASH}

\* The normalized form of the spec's data model: non-empty, no backslash, no
\* two consecutive slashes, no leading or trailing slash, no surrounding
\* white space.
IsNormalized(v) ==
    /\ v # <<>>
    /\ \A i \in 1..Len(v) : v[i] # BACKSLASH
    /\ \A i \in 1..(Len(v) - 1) : ~(v[i] = SLASH /\ v[i + 1] = SLASH)
    /\ v[1] # SLASH /\ v[Len(v)] # SLASH
    /\ ~IsSpace(v[1]) /\ ~IsSpace(v[Len(v)])

\* C6: normalization is idempotent. For every raw string s that fromRaw
\* accepts, fromRaw(fromRaw(s).toString()) succeeds with the same string.
C6_Idempotent ==
    cpStage = "twice" => (cpAgain.ok /\ cpAgain.value = cpOut.value)

\* C7: every CategoryPath returned by fromRaw holds a normalized string, and
\* only root() yields the empty string.
C7_Normalized ==
    /\ (cpStage \in {"once", "twice"} /\ cpOut.ok) => IsNormalized(cpOut.value)
    /\ cpStage = "root" => cpOut = Returned(<<>>)

----------------------------------------------------------------------------
(* Claims about execute and applyCategoryChange (Spec) *)

\* The file a workspace-relative path names, as the operating system
\* resolves it below the workspace root.
FsPath(rel) == PathNormalize(Root \o <<SLASH>> \o rel)

\* The header block of a file text (the lines between a first line "---" and
\* the next line "---") contains the given line.
HeaderHasLine(text, line) ==
    LET ls == SplitLines(text)
        closers == {j \in 2..Len(ls) : ls[j] = DELIM}
        close == CHOOSE j \in closers : \A k \in closers : j <= k
    IN  /\ ls[1] = DELIM
        /\ closers # {}
        /\ \E i \in 2..(close - 1) : ls[i] = line

OpsOf(kind) == {i \in 1..Len(fsOps) : fsOps[i].op = kind}

\* C2: move categorization. When execute({relativePath: P}) returns for a
\* note whose current category string differs from the suggested category C,
\* it returns wasMoved = true, a file exists at C/<file name of P> whose header
\* block has the line "category: C", and no file remains at P unless that is
\* the same path.
C2_Move ==
    (pc = "done" /\ currentCategoryStr(originalNote) # decision) =>
        LET dest == FsPath(decision \o <<SLASH>> \o PathBasename(relativePath))
            src == FsPath(relativePath)
        IN  /\ outcome.status = "returned"
            /\ outcome.wasMoved
            /\ dest \in DOMAIN files
            /\ HeaderHasLine(files[dest], Chars("category: ") \o decision)
            /\ dest # src => src \notin DOMAIN files

\* C2 witness: the note in/n.md was moved to A/B/n.md.
C2_Witness ==
    /\ pc = "done" /\ outcome.wasMoved
    /\ relativePath = Chars("in/n.md") /\ decision = Chars("A/B")
    /\ Chars("/ws/A/B/n.md") \in DOMAIN files
    /\ Chars("/ws/in/n.md") \notin DOMAIN files

\* C3: no-op categorization. When the loaded note's category string ("" if
\* it has none) equals the suggested category string, execute returns
\* wasMoved = false with updatedNote the originalNote and has performed no
\* filesystem write: no mkdir, no writeFile, no unlink, workspace unchanged.
C3_NoOp ==
    (pc = "done" /\ currentCategoryStr(originalNote) = decision) =>
        /\ outcome.status = "returned"
        /\ ~outcome.wasMoved
        /\ outcome.updatedNote = originalNote
        /\ fsOps = <<>>
        /\ files = files0 /\ dirs = dirs0

\* C3 witness: a note already in category AI, with AI suggested, was
\* returned unmoved.
C3_Witness ==
    /\ pc = "done" /\ outcome.status = "returned" /\ ~outcome.wasMoved
    /\ decision = Chars("AI")
    /\ currentCategoryStr(originalNote) = Chars("AI")

\* C4: in applyCategoryChange the old file is deleted only after the write of
\* the new file has succeeded and only when the new absolute path differs
\* from the old one; when they are the same path the file is rewritten in
\* place and never unlinked.
C4_UnlinkAfterWrite ==
    /\ \A i \in OpsOf("unlink") :
         /\ fsOps[i].path = apply.absOld
         /\ apply.absNew # apply.absOld
         /\ \E j \in 1..(i - 1) :
              fsOps[j] = [op |-> "writeFile", path |-> apply.absNew]
    /\ OpsOf("writeFile") = {} => files = files0
    /\ (apply # NoApply /\ apply.absNew = apply.absOld /\ OpsOf("writeFile") # {}) =>
         /\ OpsOf("unlink") = {}
         /\ apply.absOld \in DOMAIN files
         /\ files[apply.absOld] = apply.newContent

\* C4 witness: an execute completed whose applyCategoryChange unlinked the
\* old file.
C4_Witness ==
    pc = "done" /\ OpsOf("unlink") # {}

\* C5: applyCategoryChange preserves content integrity. The content of the
\* Note returned after applyCategoryChange equals the content of the Note
\* loaded from the same file before the call.
C5_ContentPreserved ==
    (pc = "done" /\ outcome.wasMoved) =>
        outcome.updatedNote.content = originalNote.content

\* C10: execute runs its steps in a strict order, each at most once:
\* loadNote, then listCategories, then the oracle's suggestCategory, then
\* applyCategoryChange, which is invoked only after the oracle has returned
\* and the comparison found a difference; the oracle is never called twice.
StepOrder == <<"loadNote", "listCategories", "suggestCategory", "applyCategoryChange">>

C10_StrictOrder ==
    /\ Len(calls) <= Len(StepOrder)
    /\ calls = SubSeq(StepOrder, 1, Len(calls))
    /\ pc = "listCategories" => (calls = SubSeq(StepOrder, 1, 1) /\ originalNote # NoNote)
    /\ pc = "suggestCategory" => calls = SubSeq(StepOrder, 1, 2)
    /\ pc = "applyRead" => calls = SubSeq(StepOrder, 1, 3)
    /\ Len(calls) = 4 =>
         /\ decision # <<>>
         /\ currentCategoryStr(originalNote) # decision

\* C10 witness: an execute completed after calling all four steps.
C10_Witness ==
    pc = "done" /\ calls = StepOrder

\* C11: any failure at any step of execute aborts the whole operation and
\* propagates the originating error. If loadNote fails, listCategories, the
\* oracle and applyCategoryChange are not invoked; if listCategories or the
\* oracle fails, applyCategoryChange is not invoked and no filesystem write
\* happens; execute never returns a result after a step has failed.
C11_FailurePropagates ==
    /\ outcome.status = "threw" =>
         /\ pc = "failed"
         /\ outcome.updatedNote = NoNote /\ ~outcome.wasMoved
    /\ pc = "failed" => (outcome.status = "threw" /\ outcome.failedAt # "none")
    /\ pc = "done" => (outcome.status = "returned" /\ outcome.failedAt = "none")
    /\ outcome.failedAt = "loadNote" =>
         /\ calls = <<"loadNote">>
         /\ fsOps = <<>> /\ files = files0 /\ dirs = dirs0
    /\ outcome.failedAt = "listCategories" =>
         /\ calls = <<"loadNote", "listCategories">>
         /\ fsOps = <<>> /\ files = files0 /\ dirs = dirs0
    /\ outcome.failedAt = "suggestCategory" =>
         /\ calls = <<"loadNote", "listCategories", "suggestCategory">>
         /\ fsOps = <<>> /\ files = files0 /\ dirs = dirs0
    /\ outcome.failedAt \in {"readFile", "mkdir", "writeFile", "unlink", "reload"} =>
         calls = StepOrder

\* C11 witness: an execute has failed in listCategories, after loadNote
\* succeeded, and went no further.
C11_Witness ==
    /\ pc = "failed" /\ outcome.failedAt = "listCategories"
    /\ originalNote # NoNote
    /\ fsOps = <<>>

\* C12: if applyCategoryChange fails after the new file has been written
\* but before the old file is deleted (fs.unlink throws), both the old file
\* and the new file are on disk, the error is reported to the caller, and
\* no cleanup or rollback is attempted.
C12_BothFilesRemain ==
    outcome.failedAt = "unlink" =>
        /\ pc = "failed" /\ outcome.status = "threw"
        /\ apply.absNew # apply.absOld
        /\ apply.absOld \in DOMAIN files
        /\ files[apply.absOld] = files0[apply.absOld]
        /\ apply.absNew \in DOMAIN files
        /\ files[apply.absNew] = apply.newContent
        /\ OpsOf("unlink") = {}
        /\ fsOps[Len(fsOps)] = [op |-> "writeFile", path |-> apply.absNew]

\* C12 witness: the unlink of /ws/in/n.md failed after /ws/AI/n.md was
\* written.
C12_Witness ==
    /\ pc = "failed" /\ outcome.failedAt = "unlink"
    /\ apply.absOld = Chars("/ws/in/n.md")
    /\ apply.absNew = Chars("/ws/AI/n.md")
    /\ {apply.absOld, apply.absNew} \subseteq DOMAIN files

\* C13: a successful applyCategoryChange(notePath, newCategory) returns the
\* Note re-loaded from the new location: its path and id are
\* newCategory/<original file name> and its category string equals
\* newCategory.toString(), for every non-root newCategory.
C13_ReturnsReloadedNote ==
    (pc = "done" /\ outcome.wasMoved) =>
        LET newPath == decision \o <<SLASH>> \o PathBasename(relativePath)
            note == outcome.updatedNote
        IN  /\ note.path = newPath
            /\ note.id = newPath
            /\ note.category.defined
            /\ note.category.value = decision

\* The category the load rule gives the note at rel in the filesystem fs,
\* as [ok, category]: fromRaw of the header's category value when that is
\* not blank, else the note's directory relative to the workspace root,
\* with no category for the directory "." or "".
ExpectedCategory(fs, rel) ==
    LET abs == FsPath(rel)
        v == GetKey(parseNoteFile(fs[abs]).frontmatter, CATEGORY)
        dir == PathDirname(RelToRoot(abs))
        of(raw) == IF fromRaw(raw).ok
                   THEN [ok |-> TRUE, category |-> Category(fromRaw(raw).value)]
                   ELSE [ok |-> FALSE, category |-> NoCategory]
    IN  IF Trim(v) # <<>> THEN of(v)
        ELSE IF dir = <<DOT>> \/ dir = <<>> THEN [ok |-> TRUE, category |-> NoCategory]
        ELSE of(dir)

\* C14: category derivation on load. If the header has a non-blank category
\* value, the note's category is CategoryPath.fromRaw of that value, taking
\* precedence over the containing directory; otherwise the category is
\* derived from the note's containing directory relative to the workspace
\* root, and a note whose directory is "." or empty has no category. (A
\* load of an existing file for which the rule gives a category, or none,
\* fails only on an I/O error.)
C14_CategoryDerivation ==
    LET e == ExpectedCategory(files0, relativePath)
    IN  /\ originalNote # NoNote =>
             (e.ok /\ originalNote.category = e.category)
        /\ (outcome.failedAt = "loadNote" /\ FsPath(relativePath) \in DOMAIN files0 /\ e.ok) =>
             loadNote(files0, relativePath).ok

\* The root-relative paths of all directories below the workspace root.
DirectoriesUnderRoot(ds) == {RelToRoot(d) : d \in {x \in ds : UnderRoot(x)}}

\* C15: listCategories returns a duplicate-free collection whose set of
\* strings is exactly the set of root-relative paths of all directories at
\* any depth under the workspace root (intermediate parents included, the
\* root itself excluded).
C15_ExactDirectorySet ==
    (Len(calls) >= 2 /\ outcome.failedAt # "listCategories") =>
        LET returned == availableCategories
        IN  /\ {returned[c] : c \in DOMAIN returned} = DirectoriesUnderRoot(dirs0)
            /\ \A c1, c2 \in DOMAIN returned :
                 returned[c1] = returned[c2] => c1 = c2

\* A path at or below the workspace root.
InWorkspace(p) == p = Root \/ UnderRoot(p)

\* C17: every file or directory that loadNote, listCategories or
\* applyCategoryChange reads, creates, writes or deletes lies under the
\* workspace root, for every relativePath and every newCategory; a path with
\* leading slashes is resolved relative to the workspace root.
C17_StaysInWorkspace ==
    /\ pc # "idle" => InWorkspace(resolveAbsolute(relativePath))
    /\ apply # NoApply => (InWorkspace(apply.absOld) /\ InWorkspace(apply.absNew))
    /\ \A i \in 1..Len(fsOps) : InWorkspace(fsOps[i].path)

\* C20: applyCategoryChange never destroys another note. After
\* applyCategoryChange(notePath, newCategory) every file other than the source
\* file at notePath still exists with its previous content, including a file
\* that was already at newCategory/<file name> and belongs to another note.
C20_OtherNotesPreserved ==
    pc # "idle" =>
        \A f \in DOMAIN files0 \ {FsPath(relativePath)} :
            f \in DOMAIN files /\ files[f] = files0[f]

\* The directory of a note path, relative to the workspace root.
DirectoryOf(notePath) == PathDirname(RelToRoot(FsPath(notePath)))

\* C21: after every successful execute the note's file lies in the directory
\* named by its category: the directory of updatedNote.path (relative to the
\* workspace root) equals updatedNote.category.toString() and equals the
\* oracle's suggested category, whether or not wasMoved is true.
C21_FileInCategoryDirectory ==
    pc = "done" =>
        LET note == outcome.updatedNote
        IN  /\ note.category.defined
            /\ DirectoryOf(note.path) = note.category.value
            /\ DirectoryOf(note.path) = decision

\* C22: execute converges after one move. After an execute that returned
\* wasMoved = true, a second execute on updatedNote.path with the oracle
\* suggesting the same category returns wasMoved = false and performs no
\* filesystem write, for every CategoryPath the oracle can produce.
C22_ConvergesAfterOneMove ==
    (pc = "done" /\ prev.returned /\ prev.wasMoved
        /\ relativePath = prev.path /\ decision = prev.decision) =>
        /\ ~outcome.wasMoved
        /\ fsOps = <<>>
        /\ files = files0 /\ dirs = dirs0

\* C23 as stated: execute returns wasMoved = true exactly when the note's
\* file location changed: wasMoved = true if and only if updatedNote.path
\* differs from the path the note was loaded from and the file no longer
\* exists at the original path.
C23_MovedIffLocationChanged ==
    pc = "done" =>
        (outcome.wasMoved <=>
            /\ FsPath(outcome.updatedNote.path) # FsPath(relativePath)
            /\ FsPath(relativePath) \notin DOMAIN files)

\* C23 amended: execute returns wasMoved = true exactly when the loaded
\* note's category string differs from the suggested category string, that
\* is, when applyCategoryChange was carried out. The note's file is then at
\* updatedNote.path, and the file at the original path is gone unless
\* updatedNote.path names that same file, which was rewritten in place.
C23_MovedIffCategoryChanged ==
    pc = "done" =>
        LET new == FsPath(outcome.updatedNote.path)
            old == FsPath(relativePath)
        IN  /\ outcome.wasMoved <=> currentCategoryStr(originalNote) # decision
            /\ outcome.wasMoved <=> OpsOf("writeFile") # {}
            /\ new \in DOMAIN files
            /\ outcome.wasMoved => (new # old <=> old \notin DOMAIN files)
            /\ ~outcome.wasMoved => new = old

\* C23 witness: execute returned wasMoved = true for a note it rewrote in
\* place: AI/n.md, whose header named the category "in", with AI suggested.
C23_Witness ==
    /\ pc = "done" /\ outcome.wasMoved
    /\ relativePath = Chars("AI/n.md") /\ decision = Chars("AI")
    /\ outcome.updatedNote.path = relativePath
    /\ FsPath(relativePath) \in DOMAIN files
    /\ OpsOf("unlink") = {}

\* C24: loadNote fails only when the file is missing or unreadable. For
\* every relativePath that resolves to an existing readable file, with any
\* content and any leading-slash form of the path, loadNote returns a Note:
\* when a load of an existing file threw, the read error is the only cause,
\* and the same load with a successful read returns a Note.
C24_LoadFailsOnlyOnRead ==
    (outcome.failedAt = "loadNote" /\ FsPath(relativePath) \in DOMAIN files0) =>
        loadNote(files0, relativePath).ok

----------------------------------------------------------------------------
(* Claims about deriveTitle (SpecTitle) *)

\* The level-1 heading marker and the lines that start with it (leading
\* white space allowed).
H1Marker == <<"#", " ">>
IsH1Line(line) == StartsWith(Trim(line), H1Marker)

\* The title rule: the trimmed remainder of the first heading line after its
\* marker, or the base name without extension when that is empty or when
\* the body has no heading line.
ExpectedTitle(relPath, body) ==
    LET lines == SplitLines(body)
        hits == {i \in 1..Len(lines) : IsH1Line(lines[i])}
        first == Trim(lines[CHOOSE i \in hits : \A j \in hits : i <= j])
        remainder == Trim(SubSeq(first, Len(H1Marker) + 1, Len(first)))
        baseName == PathBasenameExt(relPath, PathExtname(relPath))
    IN  IF hits # {} /\ remainder # <<>> THEN remainder ELSE baseName

\* C16: title derivation. If the body has a line starting with the level-1
\* heading marker, the title is the trimmed remainder of the first such
\* line with the marker stripped, falling back to the file's base name
\* without extension when that remainder is empty; with no such line the
\* title is the base name without extension. The title never holds the
\* heading marker.
C16_TitleDerivation ==
    tiStage = "titled" =>
        /\ tiTitle = ExpectedTitle(tiPath, tiBody)
        /\ ~StartsWith(tiTitle, H1Marker)

----------------------------------------------------------------------------
(* Claims about applyCategoryChange called by the agent's tool (SpecAgent) *)

\* C25: when applyCategoryChange fails because the source file cannot be
\* read (missing note), the workspace is left unchanged: no directory is
\* created, no file is written and no file is deleted.
C25_FailedReadChangesNothing ==
    outcome.failedAt = "readFile" =>
        /\ pc = "failed" /\ outcome.status = "threw"
        /\ fsOps = <<>>
        /\ dirs = dirs0
        /\ files = files0

\* C25 witness: applyCategoryChange("AI/n.md", AI) has failed on a
\* workspace without the note AI/n.md and without the directory AI.
C25_Witness ==
    /\ pc = "failed" /\ outcome.failedAt = "readFile"
    /\ relativePath = Chars("AI/n.md") /\ decision = Chars("AI")
    /\ AbsOf(relativePath) \notin DOMAIN files
    /\ AbsOf(Chars("AI")) \notin dirs

----------------------------------------------------------------------------
(* Claims about categorizeNoteAgent (SpecAgent) *)

\* C19: the tool-calling agent is a bounded loop. For every sequence of
\* model decisions categorizeNoteAgent performs at most 8 steps and then
\* completes (after the 8th step no further decision is asked for), and
\* every apply_category_change tool call validates newCategory with
\* CategoryPath.fromRaw before FsWorkspace.applyCategoryChange is invoked.
C19_BoundedValidatedLoop ==
    /\ agStep <= StepLimit
    /\ agStage = "awaiting-decision" => agStep < StepLimit
    /\ (agStep = StepLimit /\ agTool.status \in {"none", "ok", "error"}) =>
         agStage = "completed"
    /\ (agStage # "idle" /\ agTool.name = "apply_category_change"
            /\ agTool.status # "called") =>
         /\ calls[1] = "fromRaw"
         /\ agTool.status = "running" => fromRaw(agTool.newCategory).ok
         /\ fromRaw(agTool.newCategory).ok =>
              /\ decision = fromRaw(agTool.newCategory).value
              /\ relativePath = agTool.path
         /\ ~fromRaw(agTool.newCategory).ok =>
              (calls = <<"fromRaw">> /\ agTool.status = "error")
    /\ \A k \in 1..Len(calls) :
         (agStage # "idle" /\ calls[k] = "applyCategoryChange") =>
             (k = 2 /\ calls[1] = "fromRaw")

\* C19 witness: the agent completed with its 8th step, an
\* apply_category_change call that moved the note after fromRaw accepted the
\* category.
C19_Witness ==
    /\ agStage = "completed" /\ agStep = StepLimit
    /\ agTool.name = "apply_category_change" /\ agTool.status = "ok"
    /\ calls = <<"fromRaw", "applyCategoryChange">>
    /\ OpsOf("unlink") # {}

====
